---- MODULE Spec2Model ----
(***************************************************************************)
(* TestPatternSrc (src/testpattern/imp.rs): a push source that paints a    *)
(* scrolling horizontal bar and stamps each buffer with a timestamp, a     *)
(* duration and a sequence offset.                                         *)
(*                                                                         *)
(* Representation notes.                                                   *)
(*  - A u32 is a pair <<hi, lo>> of 16-bit limbs, so that the full range   *)
(*    0 .. 2^32-1 and the carry out of a 32-bit addition are exact.        *)
(*  - ClockTime and the u64 counters are integers; the inputs are bounded  *)
(*    so that no u64 value of the program exceeds 2^31-1.                  *)
(*  - A Rust panic inside a handler poisons the settings mutex (every      *)
(*    handler starts with lock().unwrap()): `panicked` records it and no   *)
(*    handler runs afterwards.                                             *)
(*  - `ret` is the last call: its name, its result and what it handed back *)
(*    (create: the buffer; fixate: the capability set). `handed` holds     *)
(*    whether start() was called and the stamps of the last stamped buffer *)
(*    the caller received since.                                           *)
(*  - `overflow_checks` is the build profile: with overflow checks a u32   *)
(*    addition or multiplication that overflows panics, without them it    *)
(*    wraps.                                                               *)
(*  - `lock` is the owner of the settings mutex, `pc` the position of the   *)
(*    streaming thread and of the control thread inside their handlers,     *)
(*    `frame` the locals of the pull in flight, `pending` the property call *)
(*    in flight, `bindings` the properties a control binding is attached    *)
(*    to. They move only in the specifications that run the handlers        *)
(*    statement by statement (SpecThreads); elsewhere a handler is one      *)
(*    step, which the mutex it holds from its first statement to its last   *)
(*    makes it.                                                             *)
(***************************************************************************)
EXTENDS Integers, Naturals, Sequences, FiniteSets, TLC

VARIABLES settings, panicked, overflow_checks, ret, handed,
          lock, pc, frame, pending, bindings

threadvars == <<lock, pc, frame, pending, bindings>>

vars == <<settings, panicked, overflow_checks, ret, handed,
          lock, pc, frame, pending, bindings>>

----------------------------------------------------------------------------
(* Bounds of the model *)

\* frames produced per negotiated epoch in Spec
MaxFrames == 2
\* frames produced per negotiated epoch in SpecTiming
MaxTimingFrames == 30

----------------------------------------------------------------------------
(* 32-bit unsigned words as two 16-bit limbs *)

LIMB == 2 ^ 16

U32(hi, lo) == <<hi, lo>>

\* a small natural number (< 2^31) as a u32
ToU32(n) == <<n \div LIMB, n % LIMB>>

\* a + b overflows 32 bits
OverflowsU32(a, b) == a[1] + b[1] + ((a[2] + b[2]) \div LIMB) >= LIMB

\* a + b modulo 2^32
WrappingAddU32(a, b) ==
    <<(a[1] + b[1] + ((a[2] + b[2]) \div LIMB)) % LIMB, (a[2] + b[2]) % LIMB>>

LtU32(a, b) == a[1] < b[1] \/ (a[1] = b[1] /\ a[2] < b[2])

GeU32(a, b) == ~LtU32(a, b)

\* a % h for 0 < h < 2^15, as a natural number
RemU32(a, h) == (((a[1] % h) * (LIMB % h)) + (a[2] % h)) % h

\* x >> 24
Shr24(a) == a[1] \div 256

\* a u32 below 2^31 as a natural number
FromU32(a) == a[1] * LIMB + a[2]

\* the product of two 16-bit limbs as <<hi, lo>>, through partial products
\* of 24 bits
Mul16(x, y) ==
    LET p   == x * (y \div 256)
        q   == x * (y % 256)
        low == (p % 256) * 256 + q
    IN  <<p \div 256 + low \div LIMB, low % LIMB>>

\* a * b in u32: value is the product modulo 2^32, overflow says that the
\* product does not fit 32 bits
MulU32(a, b) ==
    LET ll  == Mul16(a[2], b[2])
        hl  == Mul16(a[1], b[2])
        lh  == Mul16(a[2], b[1])
        mid == ll[1] + hl[2] + lh[2]
    IN  [overflow |-> \/ (a[1] # 0 /\ b[1] # 0)
                      \/ hl[1] # 0
                      \/ lh[1] # 0
                      \/ mid >= LIMB,
         value    |-> <<mid % LIMB, ll[2]>>]

----------------------------------------------------------------------------
(* Program constants *)

DEFAULT_FOREGROUND_COLOR == U32(65535, 65535)
DEFAULT_BACKGROUND_COLOR == U32(65280, 0)
DEFAULT_SPEED == 5
DEFAULT_SIZE == 50

SECOND == 1000000000

\* gst::ClockTime::NONE / GST_BUFFER_OFFSET_NONE: the field is not set
NONE == -1

U32_MAX == U32(65535, 65535)

----------------------------------------------------------------------------
(* Format descriptor: Option<gst_video::VideoInfo> *)

NoInfo ==
    [is_some |-> FALSE, format |-> "Unknown", width |-> 0, height |-> 0,
     fps_n |-> 0, fps_d |-> 1]

VideoInfo(fmt, w, h, n, d) ==
    [is_some |-> TRUE, format |-> fmt, width |-> w, height |-> h,
     fps_n |-> n, fps_d |-> d]

\* the descriptor start() installs
StartInfo == VideoInfo("Rgba", 320, 240, 0, 1)

\* impl Default for Settings, then constructed()
DefaultSettings ==
    [foreground_color |-> DEFAULT_FOREGROUND_COLOR,
     background_color |-> DEFAULT_BACKGROUND_COLOR,
     speed            |-> ToU32(DEFAULT_SPEED),
     size             |-> ToU32(DEFAULT_SIZE),
     offset           |-> ToU32(0),
     info             |-> NoInfo,
     accum_frames     |-> 0,
     n_frames         |-> 0,
     running_time     |-> 0,
     accum_rtime      |-> 0]

\* Capability sets: one structure. An int field is fixed (lo = hi) or a
\* range lo..hi; a fraction field is absent, fixed or a range of <<n, d>>.
IntFixed(v) == [kind |-> "fixed", lo |-> v, hi |-> v]
IntRange(lo, hi) == [kind |-> "range", lo |-> lo, hi |-> hi]
FracAbsent == [kind |-> "absent", lo |-> <<0, 1>>, hi |-> <<0, 1>>]
FracFixed(n, d) == [kind |-> "fixed", lo |-> <<n, d>>, hi |-> <<n, d>>]
FracRange(lo, hi) == [kind |-> "range", lo |-> lo, hi |-> hi]

Caps(name, fmt, w, h, fr) ==
    [name |-> name, format |-> fmt, width |-> w, height |-> h, framerate |-> fr]

NoCaps == Caps("none", "none", IntFixed(0), IntFixed(0), FracAbsent)

\* a buffer: its stamps and its payload. The payload is `bytes` bytes, each
\* of them `fill` as the allocator or pool provided it; meta_stride is the
\* row stride of its video meta, NONE for a buffer without one. `rows` is the
\* number of frame rows make_image has written and `by` the settings it read
\* when it wrote them.
NoBuffer ==
    [present |-> FALSE, pts |-> NONE, dts |-> NONE, duration |-> NONE,
     offset |-> NONE, offset_end |-> NONE, bytes |-> 0, meta_stride |-> NONE,
     fill |-> 0, rows |-> 0, by |-> DefaultSettings]

\* the payload as the allocator provided it
Provided(buf) == [i \in 1 .. buf.bytes |-> buf.fill]

\* an allocation query: the capability set it is for, the proposed pools in
\* order, each <<pool, size, min, max>> with pool "none" for an entry without
\* a pool object, and whether it carries the video meta
Query(caps, pools, meta) == [caps |-> caps, pools |-> pools, video_meta |-> meta]

NoQuery == Query(NoCaps, <<>>, FALSE)

\* the configuration of a buffer pool: set_params and the options
PoolConfig(pool, caps, size, min, max, meta) ==
    [pool |-> pool, caps |-> caps, size |-> size, min |-> min, max |-> max,
     video_meta_option |-> meta]

NoConfig == PoolConfig("none", NoCaps, 0, 0, 0, FALSE)

\* the last call and what it returned; arg and out are the capability sets
\* fixate() was given and returned; query and answer are the allocation query
\* as decide_allocation() received and left it, config the configuration it
\* set on the pool; length is the length create() was asked for
NoCall ==
    [op |-> "none", result |-> "none", arg |-> NoCaps, out |-> NoCaps,
     buffer |-> NoBuffer, query |-> NoQuery, answer |-> NoQuery,
     config |-> NoConfig, length |-> 0]

Call(op, result) == [NoCall EXCEPT !.op = op, !.result = result]

\* what the caller has seen: whether start() has been called, and the stamps
\* of the last buffer fill() stamped and create() handed over since then
NotStarted ==
    [started |-> FALSE, any |-> FALSE, pts |-> NONE, offset |-> NONE,
     offset_end |-> NONE]

NothingHanded == [NotStarted EXCEPT !.started = TRUE]

Stamps(h, buf) ==
    [h EXCEPT !.any = TRUE, !.pts = buf.pts, !.offset = buf.offset,
              !.offset_end = buf.offset_end]

\* the locals of the streaming thread: the length create() was asked for,
\* the buffer alloc() returned, the settings as they were when fill() took
\* the lock, and the capability set fixate() is working on
NoFrame ==
    [length |-> 0, buffer |-> NoBuffer, snap |-> DefaultSettings, caps |-> NoCaps]

\* the property call of the control thread: name and value
NoPending == <<"none", U32(0, 0)>>

Init ==
    /\ settings = DefaultSettings
    /\ panicked = FALSE
    /\ overflow_checks \in BOOLEAN
    /\ ret = NoCall
    /\ handed = NotStarted
    /\ lock = "none"
    /\ pc = [streaming |-> "idle", control |-> "idle"]
    /\ frame = NoFrame
    /\ pending = NoPending
    /\ bindings = {}

----------------------------------------------------------------------------
(* FrameGenerator: make_image / fill_image *)

\* line 93: (line_idx >= offset) && line_idx < (offset + size), the sum taken
\* modulo 2^32 (a build with overflow checks panics instead, see below)
InBar(idx, s) ==
    /\ GeU32(ToU32(idx), s.offset)
    /\ LtU32(ToU32(idx), WrappingAddU32(s.offset, s.size))

\* line 93 evaluates offset + size only for a pixel whose row has
\* line_idx >= offset (&& short-circuits): the rows of the frame for which the
\* sum is evaluated and overflows
BarSumOverflows(rows, width, s) ==
    /\ width > 0
    /\ OverflowsU32(s.offset, s.size)
    /\ \E idx \in 0 .. rows - 1 : GeU32(ToU32(idx), s.offset)

\* line 88 stops at the first row for which line 93 panics: the rows written
\* before it, those with line_idx < offset
RowsBeforeBar(rows, s) ==
    Cardinality({idx \in 0 .. rows - 1 : LtU32(ToU32(idx), s.offset)})

\* line 84, frame.plane_stride()[0]: the stride of the frame that
\* from_buffer_ref_writable maps, the one of the buffer's video meta, and
\* without a meta the one of the descriptor, width * 4 for a packed 4-byte
\* format
FrameStride(buf, info) ==
    IF buf.meta_stride # NONE THEN buf.meta_stride ELSE info.width * 4

\* the painting with the configured colours (big-endian ARGB into B, G, R)
make_image_data_coloured(data, stride, rows, width, s) ==
    [i \in DOMAIN data |->
        LET r == (i - 1) \div stride
            b == (i - 1) % stride
        IN  IF r < rows /\ b < width * 4 /\ b % 4 # 3
            THEN LET c == IF InBar(r, s) THEN s.foreground_color
                          ELSE s.background_color
                 IN  CASE b % 4 = 0 -> c[2] % 256
                       [] b % 4 = 1 -> c[2] \div 256
                       [] b % 4 = 2 -> c[1] % 256
            ELSE data[i]]

\* lines 88-103: the bytes make_image leaves in the buffer once it has
\* written `rows` rows (stride > 0). data[r * stride + b + 1] is byte b of
\* row r of the frame; the first width * 4 bytes of a row are pixels of 4
\* bytes, of which bytes 0..2 are written. The bytes behind the last row are
\* not part of the frame.
make_image_data(data, stride, rows, width, s) ==
    [i \in DOMAIN data |->
        LET r == (i - 1) \div stride
            b == (i - 1) % stride
        IN  IF r < rows /\ b < width * 4 /\ b % 4 # 3
            THEN (IF InBar(r, s) THEN 255 ELSE 0)
            ELSE data[i]]

\* the payload bytes of a buffer
Payload(buf) ==
    IF buf.rows = 0 THEN Provided(buf)
    ELSE make_image_data(Provided(buf), FrameStride(buf, buf.by.info), buf.rows,
                         buf.by.info.width, buf.by)

\* lines 83-106: the effect of make_image on the settings and the number of
\* rows it has written. panic is TRUE when the call does not return: a stride
\* of 0 (chunks_exact_mut(0), line 88), a row shorter than its pixels
\* (line[..width] with stride < width * 4, line 89, at the first row), an
\* overflowing u32 addition in a build with overflow checks (line 93, at the
\* first row of the bar; line 104, after the last row), or info.height() = 0
\* (line 105).
make_image(rows, stride, width, s, checks) ==
    IF stride = 0
    THEN [panic |-> TRUE, settings |-> s, rows |-> 0]
    ELSE IF rows > 0 /\ stride < width * 4
    THEN [panic |-> TRUE, settings |-> s, rows |-> 0]
    ELSE IF checks /\ BarSumOverflows(rows, width, s)
    THEN [panic |-> TRUE, settings |-> s, rows |-> RowsBeforeBar(rows, s)]
    ELSE IF checks /\ OverflowsU32(s.offset, s.speed)
    THEN [panic |-> TRUE, settings |-> s, rows |-> rows]
    ELSE LET sum == WrappingAddU32(s.offset, s.speed) IN
         IF s.info.height = 0
         THEN [panic |-> TRUE, settings |-> [s EXCEPT !.offset = sum],
               rows |-> rows]
         ELSE [panic |-> FALSE,
               settings |-> [s EXCEPT !.offset = ToU32(RemU32(sum, s.info.height))],
               rows |-> rows]

\* gst_video_frame_map accepts a buffer that holds the rows of the frame:
\* bytes >= height * stride, written as a division so that the product of a
\* large frame is never formed
Fits(buf, info) ==
    \/ FrameStride(buf, info) = 0
    \/ info.height <= buf.bytes \div FrameStride(buf, info)

\* VideoInfo::is_valid: the descriptor has a width and a height
IsValid(info) == info.width > 0 /\ info.height > 0

\* a mapping failure escalated to a flow error
fill_image_map_error(s, buf, checks, asserts) ==
    IF ~s.info.is_some
    THEN [result |-> "panic", panic |-> TRUE, rows |-> 0, settings |-> s]
    ELSE IF s.info.format = "Unknown"
    THEN [result |-> "NotNegotiated", panic |-> FALSE, rows |-> 0, settings |-> s]
    ELSE IF asserts /\ ~IsValid(s.info)
    THEN [result |-> "panic", panic |-> TRUE, rows |-> 0, settings |-> s]
    ELSE IF ~Fits(buf, s.info)
    THEN [result |-> "Error", panic |-> FALSE, rows |-> 0, settings |-> s]
    ELSE LET m == make_image(s.info.height, FrameStride(buf, s.info),
                             s.info.width, s, checks) IN
         [result |-> IF m.panic THEN "panic" ELSE "Ok", panic |-> m.panic,
          rows |-> m.rows, settings |-> m.settings]

\* lines 108-124. Line 113 unwraps the descriptor. Line 119 maps the buffer
\* as a frame of the descriptor: info.height rows of FrameStride bytes, which
\* fails on a buffer that does not hold them; then nothing is written and the
\* result is Ok. asserts: the binding asserts info.is_valid() before it maps
\* (line 119 panics on a descriptor without width or height); which it does
\* depends on the version of the binding the element is built with. rows is
\* the number of rows written.
fill_image(s, buf, checks, asserts) ==
    IF ~s.info.is_some
    THEN [result |-> "panic", panic |-> TRUE, rows |-> 0, settings |-> s]
    ELSE IF s.info.format = "Unknown"
    THEN [result |-> "NotNegotiated", panic |-> FALSE, rows |-> 0, settings |-> s]
    ELSE IF asserts /\ ~IsValid(s.info)
    THEN [result |-> "panic", panic |-> TRUE, rows |-> 0, settings |-> s]
    ELSE IF ~Fits(buf, s.info)
    THEN [result |-> "Ok", panic |-> FALSE, rows |-> 0, settings |-> s]
    ELSE LET m == make_image(s.info.height, FrameStride(buf, s.info),
                             s.info.width, s, checks) IN
         [result |-> IF m.panic THEN "panic" ELSE "Ok", panic |-> m.panic,
          rows |-> m.rows, settings |-> m.settings]

----------------------------------------------------------------------------
(* TimingAccumulator *)

\* the scaling without the remainder of num / denom
gst_util_uint64_scale_truncated(val, num, denom) == val * (num \div denom)

\* gst_util_uint64_scale(val, num, denom) = floor(val * num / denom) for
\* denom > 0, which the library computes with a 128-bit intermediate. Here
\* val * num = val * (num \div denom) * denom + val * (num % denom), so that
\* no intermediate exceeds the result by more than val * denom.
gst_util_uint64_scale(val, num, denom) ==
    val * (num \div denom) + (val * (num % denom)) \div denom

\* element.buffer_pool() and the allocator as alloc() finds them. state is
\* "none" (no pool), "no_memory" (no pool and the allocation fails), "active"
\* or "flushing"; an active pool hands out buffers of `bytes` bytes, or, with
\* bytes = NONE, frames of the descriptor with rows padded by `pad` bytes.
Pool(state, pad, bytes) == [state |-> state, pad |-> pad, bytes |-> bytes]

NoPool == Pool("none", 0, NONE)

\* line 439: info.width() * info.height() * 4, two u32 multiplications
AllocBytes(info) ==
    LET wh  == MulU32(ToU32(info.width), ToU32(info.height))
        all == MulU32(wh.value, ToU32(4))
    IN  [overflow |-> wh.overflow \/ all.overflow, value |-> all.value]

\* lines 429-441: alloc. Without a pool the buffer has width * height * 4
\* bytes and no video meta (line 439): the product is taken in u32, so a
\* frame of 2^32 bytes or more panics in a build with overflow checks and
\* gets a buffer of the product modulo 2^32 in one without. With a pool the
\* buffer is what acquire_buffer returns, a buffer of the pool or a flow
\* error (line 438): `bytes` bytes without a meta, or the frame of the
\* descriptor with a video meta whose stride is width * 4 + pad. `fill` is
\* the byte the memory holds.
alloc(s, pool, fill, checks) ==
    IF ~s.info.is_some
    THEN [panic |-> TRUE, result |-> "panic", buffer |-> NoBuffer]
    ELSE IF pool.state = "flushing"
    THEN [panic |-> FALSE, result |-> "Flushing", buffer |-> NoBuffer]
    ELSE IF pool.state \notin {"active", "flushing"}
            /\ checks /\ AllocBytes(s.info).overflow
    THEN [panic |-> TRUE, result |-> "panic", buffer |-> NoBuffer]
    ELSE IF pool.state = "no_memory"
    THEN [panic |-> FALSE, result |-> "Error", buffer |-> NoBuffer]
    ELSE IF pool.state = "active" /\ pool.bytes # NONE
    THEN [panic |-> FALSE, result |-> "Ok",
          buffer |-> [NoBuffer EXCEPT !.present = TRUE,
                                      !.bytes = pool.bytes,
                                      !.fill = fill]]
    ELSE IF pool.state = "active"
    THEN [panic |-> FALSE, result |-> "Ok",
          buffer |-> [NoBuffer EXCEPT !.present = TRUE,
                                      !.bytes = s.info.height
                                                * (s.info.width * 4 + pool.pad),
                                      !.meta_stride = s.info.width * 4 + pool.pad,
                                      !.fill = fill]]
    ELSE [panic |-> FALSE, result |-> "Ok",
          buffer |-> [NoBuffer EXCEPT !.present = TRUE,
                                      !.bytes = FromU32(AllocBytes(s.info).value),
                                      !.fill = fill]]

\* line 459: the sequence offset of the next buffer
BufferOffset(s) == s.accum_frames + s.n_frames

\* line 452: the presentation timestamp of the next buffer
BufferPts(s) == s.accum_rtime + s.running_time

\* lines 445-476: PushSrcImpl::fill. result is "Ok", a flow error, or "panic"
\* when the call does not return; settings are the settings it leaves, buffer
\* the buffer with the stamps set and the rows written by then.
fill(s, buf, checks, asserts) ==
    LET info == s.info
        pts  == BufferPts(s)
        fi   == fill_image(s, buf, checks, asserts)
        s1   == fi.settings
        off  == BufferOffset(s1)
        s2   == [s1 EXCEPT !.n_frames = s1.n_frames + 1]
        next_time == gst_util_uint64_scale(s2.n_frames, info.fps_d * SECOND, info.fps_n)
        \* line 455 sets the PTS before line 456 paints
        painted == [buf EXCEPT !.pts = pts,
                               !.rows = fi.rows,
                               !.by = IF fi.rows > 0 THEN s ELSE @]
    IN  IF ~info.is_some
        \* line 451 unwraps the descriptor
        THEN [result |-> "panic", settings |-> s, buffer |-> buf]
        ELSE IF fi.panic
        THEN [result |-> "panic", settings |-> s1, buffer |-> painted]
        ELSE IF fi.result # "Ok"
        THEN [result |-> fi.result, settings |-> s1, buffer |-> painted]
        ELSE IF info.fps_n = 0
        \* gst_util_uint64_scale returns u64::MAX for a zero denominator,
        \* which is no ClockTime: lines 471-472 panic
        THEN [result |-> "panic", settings |-> s2,
              buffer |-> [painted EXCEPT !.dts = NONE, !.offset = off,
                                         !.offset_end = off + 1]]
        ELSE [result |-> "Ok",
              settings |-> [s2 EXCEPT !.running_time = next_time],
              buffer |-> [painted EXCEPT
                  !.dts = NONE,
                  !.offset = off,
                  !.offset_end = off + 1,
                  !.duration = next_time - s2.running_time]]

----------------------------------------------------------------------------
(* CapsNegotiator *)

VideoFormats == {"BGRx", "RGBA"}

\* gst_video::VideoInfo::from_caps: the caps must be fixed and name a known
\* format; a missing framerate reads as 0/1
from_caps(caps) ==
    IF /\ caps.format \in VideoFormats
       /\ caps.width.kind = "fixed"
       /\ caps.height.kind = "fixed"
       /\ caps.framerate.kind # "range"
    THEN [ok |-> TRUE,
          info |-> VideoInfo(IF caps.format = "BGRx" THEN "Bgrx" ELSE "Rgba",
                             caps.width.lo, caps.height.lo,
                             caps.framerate.lo[1], caps.framerate.lo[2])]
    ELSE [ok |-> FALSE, info |-> NoInfo]

\* the epoch transfer done before the capability set is validated
set_caps_transfer_first(s, caps) ==
    LET moved == [s EXCEPT !.accum_rtime = s.running_time,
                           !.accum_frames = s.n_frames,
                           !.running_time = 0,
                           !.n_frames = 0]
    IN  IF caps.name = "video/x-raw" /\ from_caps(caps).ok
        THEN [result |-> "Ok",
              settings |-> [moved EXCEPT !.info = from_caps(caps).info]]
        ELSE [result |-> "Err", settings |-> moved]

\* lines 300-318
set_caps(s, caps) ==
    IF caps.name = "video/x-raw" /\ from_caps(caps).ok
    THEN [result |-> "Ok",
          settings |-> [s EXCEPT !.info = from_caps(caps).info,
                                 !.accum_rtime = s.running_time,
                                 !.accum_frames = s.n_frames,
                                 !.running_time = 0,
                                 !.n_frames = 0]]
    ELSE [result |-> "Err", settings |-> s]

\* a / b <= c / d for fractions with positive denominators
FracLe(x, y) == x[1] * y[2] <= y[1] * x[2]

\* the fixation that takes the smallest value of the range
fixate_field_lowest_int(f, target) ==
    IF f.kind # "range" THEN f ELSE IntFixed(f.lo)

\* gst_structure_fixate_field_nearest_int
fixate_field_nearest_int(f, target) ==
    IF f.kind # "range" THEN f
    ELSE IntFixed(IF target < f.lo THEN f.lo ELSE IF target > f.hi THEN f.hi ELSE target)

\* gst_structure_fixate_field_nearest_fraction
fixate_field_nearest_fraction(f, target) ==
    IF f.kind # "range" THEN f
    ELSE IF ~FracLe(f.lo, target) THEN FracFixed(f.lo[1], f.lo[2])
    ELSE IF ~FracLe(target, f.hi) THEN FracFixed(f.hi[1], f.hi[2])
    ELSE FracFixed(target[1], target[2])

\* parent_fixate (gst_caps_fixate): a field that is still a range takes its
\* smallest value
parent_fixate(caps) ==
    [caps EXCEPT
        !.width = IF @.kind = "range" THEN IntFixed(@.lo) ELSE @,
        !.height = IF @.kind = "range" THEN IntFixed(@.lo) ELSE @,
        !.framerate = IF @.kind = "range" THEN FracFixed(@.lo[1], @.lo[2]) ELSE @]

\* the alpha test inverted
HasAlpha_Inverted(s) == Shr24(s.foreground_color) = 255

\* line 325: foreground_color >> 24 != 255
HasAlpha(s) == Shr24(s.foreground_color) # 255

\* lines 331-350: the fields are fixated after the guard is dropped
fixate_fields(caps) ==
    parent_fixate(
        [caps EXCEPT
            !.width = fixate_field_nearest_int(@, 320),
            !.height = fixate_field_nearest_int(@, 240),
            !.framerate = IF @.kind # "absent"
                          THEN fixate_field_nearest_fraction(@, <<30, 1>>)
                          ELSE FracFixed(30, 1)])

\* lines 320-351, with no other thread in between
fixate(s, caps) ==
    IF HasAlpha(s) THEN caps ELSE fixate_fields(caps)

\* the size the proposal asked for, whatever the format needs
pool_size_proposed(size, proposed) == proposed

\* line 386: info.size().max(*pool_size as usize) as u32. The maximum is
\* taken in usize and the cast keeps its low 32 bits: a frame of 2^32 bytes
\* or more exceeds every proposal and is truncated.
pool_size(size, proposed) ==
    IF size.overflow \/ GeU32(size.value, ToU32(proposed))
    THEN FromU32(size.value)
    ELSE proposed

\* gst_video::VideoInfo::size() of a packed 4-byte format without padding,
\* width * 4 * height in usize: its low 32 bits (value) and whether it
\* exceeds them (overflow)
info_size(info) ==
    LET wh  == MulU32(ToU32(info.width), ToU32(info.height))
        all == MulU32(wh.value, ToU32(4))
    IN  [overflow |-> wh.overflow \/ all.overflow, value |-> all.value]

\* lines 373-413. accepts: pool.set_config(config) succeeds. The parent's
\* decide_allocation leaves the query as it is and returns Ok. Line 383 casts
\* info.size() to u32, which keeps its low 32 bits.
decide_allocation(s, query, accepts) ==
    IF ~s.info.is_some
    THEN [panic |-> TRUE, result |-> "panic", query |-> query, config |-> NoConfig]
    ELSE LET update == query.pools # <<>>
             entry  == IF update
                       THEN <<query.pools[1][1],
                              pool_size(info_size(s.info), query.pools[1][2]),
                              query.pools[1][3], query.pools[1][4]>>
                       ELSE <<"none", FromU32(info_size(s.info).value), 0, 0>>
             pool   == IF entry[1] = "none" THEN "new" ELSE entry[1]
             config == PoolConfig(pool, query.caps, entry[2], entry[3], entry[4],
                                  query.video_meta)
         IN  IF ~accepts
             THEN [panic |-> FALSE, result |-> "Err", query |-> query,
                   config |-> NoConfig]
             ELSE [panic |-> FALSE, result |-> "Ok",
                   query |-> [query EXCEPT !.pools =
                       IF update
                       THEN [@ EXCEPT ![1] = <<pool, entry[2], entry[3], entry[4]>>]
                       ELSE Append(@, <<pool, entry[2], entry[3], entry[4]>>)],
                   config |-> config]

\* lines 353-371
start(s) ==
    [s EXCEPT !.running_time = 0,
              !.n_frames = 0,
              !.accum_frames = 0,
              !.accum_rtime = 0,
              !.info = StartInfo]

\* lines 210-227
property(s, name) ==
    CASE name = "foreground-color" -> s.foreground_color
      [] name = "background-color" -> s.background_color
      [] name = "speed"            -> s.speed
      [] name = "size"             -> s.size

\* lines 184-208
set_property(s, name, value) ==
    CASE name = "foreground-color" -> [s EXCEPT !.foreground_color = value]
      [] name = "background-color" -> [s EXCEPT !.background_color = value]
      [] name = "speed"            -> [s EXCEPT !.speed = value]
      [] name = "size"             -> [s EXCEPT !.size = value]

----------------------------------------------------------------------------
(* The element as a state machine: one action per handler, and one per    *)
(* critical section of a handler that takes the settings lock twice or     *)
(* goes on after dropping it                                               *)

I32_MAX == 2147483647

\* the pad template, lines 267-281
TemplateCaps ==
    Caps("video/x-raw", "BGRx", IntRange(0, I32_MAX), IntRange(0, I32_MAX),
         FracRange(<<0, 1>>, <<I32_MAX, 1>>))

RawCaps(w, h, n, d) ==
    Caps("video/x-raw", "BGRx", IntFixed(w), IntFixed(h), FracFixed(n, d))

\* the capability sets set_caps() is called with
NegotiatedCaps ==
    { RawCaps(1, 3, 30, 1), RawCaps(2, 2, 15, 2),
      Caps("video/x-bayer", "bggr", IntFixed(1), IntFixed(2), FracFixed(30, 1)),
      TemplateCaps }

\* the property writes of the control thread
PropertyWrites ==
    { <<"foreground-color", U32(255, 65535)>>,
      <<"background-color", U32(65280, 255)>>,
      <<"speed", U32_MAX>>,
      <<"size", U32_MAX>> }

\* what create() finds: no pool, or a flushing pool
Pools == { NoPool, Pool("flushing", 0, NONE) }

\* the length create() is asked for: BaseSrc passes its blocksize
Lengths == {0, 4096}

\* the byte the memory holds
Fills == {85}

\* The base class calls start() while the streaming thread is not running and
\* set_caps(), fixate(), decide_allocation() and create() on the streaming
\* thread, one after the other; set_property() and property() are called on
\* any thread and wait only for the mutex.
Start ==
    /\ ~panicked
    /\ pc.streaming = "idle"
    /\ lock = "none"
    /\ settings' = start(settings)
    /\ ret' = Call("start", "Ok")
    /\ handed' = NothingHanded
    /\ UNCHANGED <<panicked, overflow_checks>>
    /\ UNCHANGED threadvars

SetCaps(caps) ==
    /\ ~panicked
    /\ pc.streaming = "idle"
    /\ lock = "none"
    /\ settings' = set_caps(settings, caps).settings
    /\ ret' = Call("set_caps", set_caps(settings, caps).result)
    /\ UNCHANGED <<panicked, overflow_checks, handed>>
    /\ UNCHANGED threadvars

\* lines 321-329: the alpha test under the lock. With alpha the candidate is
\* returned at once; otherwise the guard is dropped and fixate() goes on
\* without the lock.
FixateCheck(caps) ==
    /\ ~panicked
    /\ pc.streaming = "idle"
    /\ lock = "none"
    /\ IF HasAlpha(settings)
       THEN /\ ret' = [Call("fixate", "caps") EXCEPT !.arg = caps, !.out = caps]
            /\ UNCHANGED <<pc, frame>>
       ELSE /\ ret' = [Call("fixate", "unlocked") EXCEPT !.arg = caps]
            /\ pc' = [pc EXCEPT !.streaming = "fixating"]
            /\ frame' = [frame EXCEPT !.caps = caps]
    /\ UNCHANGED <<settings, panicked, overflow_checks, handed, lock, pending,
                   bindings>>

\* lines 331-350: the fields are fixated and the capability set is returned
FixateFields ==
    /\ ~panicked
    /\ pc.streaming = "fixating"
    /\ ret' = [Call("fixate", "caps") EXCEPT !.arg = frame.caps,
                                             !.out = fixate_fields(frame.caps)]
    /\ pc' = [pc EXCEPT !.streaming = "idle"]
    /\ frame' = NoFrame
    /\ UNCHANGED <<settings, panicked, overflow_checks, handed, lock, pending,
                   bindings>>

SetProperty(name, value) ==
    /\ ~panicked
    /\ lock = "none"
    /\ settings' = set_property(settings, name, value)
    /\ ret' = Call("set_property", "Ok")
    /\ UNCHANGED <<panicked, overflow_checks, handed>>
    /\ UNCHANGED threadvars

\* lines 421-427 with 429-441: create() calls alloc(), which holds the lock
\* while it reads the descriptor and gets the buffer. A flow error of alloc()
\* is returned by create(); with length = 0 the buffer is returned as it is;
\* otherwise fill() follows, after alloc() has released the lock. maxFrames
\* bounds the frames of an epoch.
CreateAlloc(maxFrames, length, pool, fillByte) ==
    /\ ~panicked
    /\ pc.streaming = "idle"
    /\ lock = "none"
    /\ settings.n_frames < maxFrames
    /\ LET a == alloc(settings, pool, fillByte, overflow_checks)
       IN  IF a.panic
           THEN /\ panicked' = TRUE
                /\ ret' = [Call("create", "panic") EXCEPT !.length = length]
                /\ UNCHANGED <<pc, frame>>
           ELSE IF a.result # "Ok"
           THEN /\ ret' = [Call("create", a.result) EXCEPT !.length = length]
                /\ UNCHANGED <<panicked, pc, frame>>
           ELSE IF length = 0
           THEN /\ ret' = [Call("create", "Ok") EXCEPT !.length = length,
                                                       !.buffer = a.buffer]
                /\ UNCHANGED <<panicked, pc, frame>>
           ELSE /\ ret' = [Call("alloc", "Ok") EXCEPT !.length = length,
                                                      !.buffer = a.buffer]
                /\ pc' = [pc EXCEPT !.streaming = "allocated"]
                /\ frame' = [frame EXCEPT !.length = length, !.buffer = a.buffer]
                /\ UNCHANGED panicked
    /\ UNCHANGED <<settings, overflow_checks, handed, lock, pending, bindings>>

\* line 424 with 445-476: fill() on the buffer alloc() returned, in one
\* critical section. asserts: the binding asserts a valid descriptor before
\* it maps the buffer.
CreateFill(asserts) ==
    /\ ~panicked
    /\ pc.streaming = "allocated"
    /\ lock = "none"
    /\ LET f == fill(settings, frame.buffer, overflow_checks, asserts)
       IN  /\ panicked' = (f.result = "panic")
           /\ settings' = f.settings
           /\ ret' = [Call("create", f.result) EXCEPT
                         !.length = frame.length,
                         !.buffer = IF f.result = "Ok" THEN f.buffer ELSE NoBuffer]
           /\ handed' = IF f.result = "Ok" THEN Stamps(handed, f.buffer) ELSE handed
    /\ pc' = [pc EXCEPT !.streaming = "idle"]
    /\ frame' = NoFrame
    /\ UNCHANGED <<overflow_checks, lock, pending, bindings>>

\* Streaming: runs with renegotiations, accepted and rejected, pulls of
\* either length from the allocator or a flushing pool, and property writes
\* before a pull and between its alloc() and fill()
Next ==
    \/ Start
    \/ \E caps \in NegotiatedCaps : SetCaps(caps)
    \/ \E w \in PropertyWrites : SetProperty(w[1], w[2])
    \/ \E length \in Lengths, pool \in Pools, fillByte \in Fills :
          CreateAlloc(MaxFrames, length, pool, fillByte)
    \/ \E asserts \in BOOLEAN : CreateFill(asserts)

Spec == Init /\ [][Next]_vars

\* frames painted per negotiated epoch in SpecPaint
MaxPaintFrames == 1

\* the formats painted: 1x3, 2x2, and a frame without columns
PaintCaps == { RawCaps(1, 3, 30, 1), RawCaps(2, 2, 15, 2), RawCaps(0, 3, 30, 1) }

\* the buffers painted: of the allocator, of a pool with padded rows, of
\* pools whose buffers hold one byte and 16 bytes and have no video meta
PaintPools ==
    { NoPool, Pool("active", 4, NONE), Pool("active", 0, 1), Pool("active", 0, 16) }

\* Painting: start(), frames of several formats and buffers, with property
\* writes before a pull and between its alloc() and fill()
NextPaint ==
    \/ Start
    \/ \E caps \in PaintCaps : SetCaps(caps)
    \/ \E w \in PropertyWrites : SetProperty(w[1], w[2])
    \/ \E pool \in PaintPools, fillByte \in Fills :
          CreateAlloc(MaxPaintFrames, 4096, pool, fillByte)
    \/ \E asserts \in BOOLEAN : CreateFill(asserts)

SpecPaint == Init /\ [][NextPaint]_vars

\* the formats and buffers of the colour comparison: frames of one and of two
\* columns, in buffers of the allocator, of a pool with padded rows and of a
\* pool whose buffers are larger than the frame
ColourCaps == { RawCaps(1, 3, 30, 1), RawCaps(2, 2, 15, 2) }

ColourPools == { NoPool, Pool("active", 4, NONE), Pool("active", 0, 16) }

\* Painting with every colour setting: the handlers of SpecPaint over the
\* frames that are painted
NextColour ==
    \/ Start
    \/ \E caps \in ColourCaps : SetCaps(caps)
    \/ \E w \in PropertyWrites : SetProperty(w[1], w[2])
    \/ \E pool \in ColourPools, fillByte \in Fills :
          CreateAlloc(MaxPaintFrames, 4096, pool, fillByte)
    \/ \E asserts \in BOOLEAN : CreateFill(asserts)

SpecColour == Init /\ [][NextColour]_vars

\* The timeline over a full second of frames: the handlers that touch the
\* timing fields, with framerates at which MaxTimingFrames frames fit the
\* integer range.
TimingCaps == { RawCaps(1, 3, 30, 1), RawCaps(1, 2, 60, 1) }

NextTiming ==
    \/ Start
    \/ \E caps \in TimingCaps : SetCaps(caps)
    \/ \E fillByte \in Fills : CreateAlloc(MaxTimingFrames, 4096, NoPool, fillByte)
    \/ \E asserts \in BOOLEAN : CreateFill(asserts)

SpecTiming == Init /\ [][NextTiming]_vars

\* lines 373-413
DecideAllocation(query, accepts) ==
    /\ ~panicked
    /\ pc.streaming = "idle"
    /\ lock = "none"
    /\ LET d == decide_allocation(settings, query, accepts)
       IN  /\ panicked' = d.panic
           /\ ret' = [Call("decide_allocation", d.result) EXCEPT
                         !.query = query, !.answer = d.query, !.config = d.config]
    /\ UNCHANGED <<settings, overflow_checks, handed>>
    /\ UNCHANGED threadvars

\* the pools a peer proposes: none; one smaller than a frame; two, the first
\* larger than any frame; an entry without a pool object
ProposedPools ==
    { <<>>,
      << <<"p1", 8, 2, 4>> >>,
      << <<"p1", 400000, 1, 0>>, <<"p2", 16, 0, 0>> >>,
      << <<"none", 12, 3, 3>> >> }

AllocCaps == { RawCaps(1, 3, 30, 1), RawCaps(2, 2, 15, 2) }

\* Allocation: negotiation, then the allocation query
NextAlloc ==
    \/ Start
    \/ \E caps \in AllocCaps : SetCaps(caps)
    \/ \E caps \in AllocCaps, pools \in ProposedPools,
          meta \in BOOLEAN, accepts \in BOOLEAN :
          DecideAllocation(Query(caps, pools, meta), accepts)

SpecAlloc == Init /\ [][NextAlloc]_vars

\* Fixation over candidates whose ranges lie around, above and below the
\* preferred values: the handlers fixate() depends on.
FixateCaps ==
    { TemplateCaps,
      Caps("video/x-raw", "BGRx", IntRange(640, 1280), IntFixed(2), FracAbsent),
      Caps("video/x-raw", "BGRx", IntFixed(16), IntRange(100, 200),
           FracRange(<<60, 1>>, <<120, 1>>)),
      Caps("video/x-raw", "BGRx", IntRange(1, 100), IntRange(480, 1080),
           FracFixed(15, 2)),
      Caps("video/x-raw", "BGRx", IntRange(1, 1000), IntRange(1, 1000),
           FracRange(<<1, 1>>, <<25, 1>>)) }

NextFixate ==
    \/ Start
    \/ \E w \in PropertyWrites : SetProperty(w[1], w[2])
    \/ \E caps \in FixateCaps : FixateCheck(caps)
    \/ FixateFields

SpecFixate == Init /\ [][NextFixate]_vars

----------------------------------------------------------------------------
(* The handlers statement by statement: the streaming thread runs create(),  *)
(* a control thread calls set_property() and property(). Mutex::lock returns *)
(* when no thread owns the mutex; a guard is dropped when its handler        *)
(* returns or unwinds.                                                       *)

\* frames produced per negotiated epoch in SpecThreads
MaxThreadFrames == 2

\* lines 139-178: the properties whose flags include GST_PARAM_CONTROLLABLE.
\* All four are ParamFlags::READWRITE, and a control binding can only be
\* attached to a controllable property.
Controllable == {}

\* gst_object_add_control_binding, called by the application
AddControlBinding(name) ==
    /\ ~panicked
    /\ pc.control = "idle"
    /\ bindings' = IF name \in Controllable THEN bindings \cup {name} ELSE bindings
    /\ ret' = Call("add_control_binding",
                   IF name \in Controllable THEN "Ok" ELSE "refused")
    /\ UNCHANGED <<settings, panicked, overflow_checks, handed, lock, pc, frame,
                   pending>>

\* a handler of the streaming thread unwinds: the guard is dropped and the
\* mutex is poisoned
Unwind ==
    /\ panicked' = TRUE
    /\ lock' = "none"
    /\ pc' = [pc EXCEPT !.streaming = "idle"]
    /\ ret' = Call("create", "panic")
    /\ UNCHANGED <<overflow_checks, handed, pending, bindings>>

\* line 421: the base class calls create() on the streaming thread
CreateCall(length) ==
    /\ ~panicked
    /\ pc.streaming = "idle"
    /\ settings.n_frames < MaxThreadFrames
    /\ pc' = [pc EXCEPT !.streaming = "called"]
    /\ frame' = [frame EXCEPT !.length = length]
    /\ UNCHANGED <<settings, panicked, overflow_checks, ret, handed, lock,
                   pending, bindings>>

\* lines 422 with 435-436: create() calls alloc(), which takes the lock and
\* unwraps the descriptor
AllocLock ==
    /\ ~panicked
    /\ pc.streaming = "called"
    /\ lock = "none"
    /\ IF ~settings.info.is_some
       THEN /\ panicked' = TRUE
            /\ ret' = [Call("create", "panic") EXCEPT !.length = frame.length]
            /\ pc' = [pc EXCEPT !.streaming = "idle"]
            /\ UNCHANGED lock
       ELSE /\ lock' = "streaming"
            /\ pc' = [pc EXCEPT !.streaming = "acquiring"]
            /\ UNCHANGED <<panicked, ret>>
    /\ UNCHANGED <<settings, overflow_checks, handed, frame, pending, bindings>>

\* lines 437-441 and 423: what alloc() gets from the pool or the allocator
\* goes back to create(). alloc() returns and drops the guard, or unwinds at
\* line 439 and poisons the mutex; create() returns the flow error, or the
\* buffer as it is when length = 0, or goes on to fill().
AllocReturn(pool, fillByte) ==
    /\ lock' = "none"
    /\ LET a == alloc(settings, pool, fillByte, overflow_checks)
           length == frame.length
       IN  /\ panicked' = a.panic
           /\ IF a.result # "Ok"
              THEN /\ ret' = [Call("create", a.result) EXCEPT !.length = length]
                   /\ pc' = [pc EXCEPT !.streaming = "idle"]
                   /\ frame' = NoFrame
              ELSE IF length = 0
              THEN /\ ret' = [Call("create", "Ok") EXCEPT !.length = length,
                                                          !.buffer = a.buffer]
                   /\ pc' = [pc EXCEPT !.streaming = "idle"]
                   /\ frame' = NoFrame
              ELSE /\ ret' = [Call("alloc", "Ok") EXCEPT !.length = length,
                                                         !.buffer = a.buffer]
                   /\ pc' = [pc EXCEPT !.streaming = "allocated"]
                   /\ frame' = [frame EXCEPT !.buffer = a.buffer]
    /\ UNCHANGED <<settings, overflow_checks, handed, pending, bindings>>

\* lines 437-440, while alloc() owns the mutex: the allocator answers at
\* once, and so does a pool that is flushing or has a buffer free (free). A
\* pool whose buffers are all in use makes acquire_buffer wait, with the
\* settings lock held.
AllocAcquire(pool, free, fillByte) ==
    /\ ~panicked
    /\ pc.streaming = "acquiring"
    /\ IF pool.state = "active" /\ ~free
       THEN /\ pc' = [pc EXCEPT !.streaming = "pool_wait"]
            /\ UNCHANGED <<settings, panicked, overflow_checks, ret, handed,
                           lock, frame, pending, bindings>>
       ELSE AllocReturn(pool, fillByte)

\* line 438: acquire_buffer returns from its wait when a buffer is released
\* to the pool or the pool is set flushing, which is up to the peer and the
\* application
AllocWake(pool, fillByte) ==
    /\ ~panicked
    /\ pc.streaming = "pool_wait"
    /\ pool.state \in {"active", "flushing"}
    /\ AllocReturn(pool, fillByte)

\* lines 450-451: fill() takes the lock and unwraps the descriptor
FillLock ==
    /\ ~panicked
    /\ pc.streaming = "allocated"
    /\ lock = "none"
    /\ IF ~settings.info.is_some
       THEN /\ panicked' = TRUE
            /\ ret' = Call("create", "panic")
            /\ pc' = [pc EXCEPT !.streaming = "idle"]
            /\ UNCHANGED <<lock, frame>>
       ELSE /\ lock' = "streaming"
            /\ frame' = [frame EXCEPT !.snap = settings]
            /\ pc' = [pc EXCEPT !.streaming = "locked"]
            /\ UNCHANGED <<panicked, ret>>
    /\ UNCHANGED <<settings, overflow_checks, handed, pending, bindings>>

\* lines 451-455: the PTS, then sync_values(pts) with the lock held. For
\* every attached binding sync_values sets the property on this thread, and
\* set_property() (line 191) waits for the mutex this thread owns.
FillSyncValues ==
    /\ ~panicked
    /\ pc.streaming = "locked"
    /\ IF bindings # {}
       THEN /\ pc' = [pc EXCEPT !.streaming = "sync_values"]
            /\ UNCHANGED frame
       ELSE /\ pc' = [pc EXCEPT !.streaming = "synced"]
            /\ frame' = [frame EXCEPT !.buffer.pts = BufferPts(settings)]
    /\ UNCHANGED <<settings, panicked, overflow_checks, ret, handed, lock,
                   pending, bindings>>

\* line 456 into lines 113-121 and 83-103: the buffer is mapped as a frame
\* of the descriptor and the rows are painted; a buffer that does not hold
\* the frame is not mapped, and fill_image() returns Ok with nothing done.
\* asserts: the binding asserts a valid descriptor before it maps the buffer.
\* Line 88 panics on a stride of 0 and line 89 on a row shorter than its
\* pixels, before a byte is written; line 93 panics at the first row of the
\* bar, after the rows above it.
FillPaintRows(asserts) ==
    /\ ~panicked
    /\ pc.streaming = "synced"
    /\ IF settings.info.format = "Unknown"
       THEN /\ lock' = "none"
            /\ pc' = [pc EXCEPT !.streaming = "idle"]
            /\ ret' = Call("create", "NotNegotiated")
            /\ frame' = NoFrame
            /\ UNCHANGED <<settings, panicked, overflow_checks, handed,
                           pending, bindings>>
       ELSE IF asserts /\ ~IsValid(settings.info)
       THEN Unwind /\ UNCHANGED <<settings, frame>>
       ELSE IF ~Fits(frame.buffer, settings.info)
       THEN /\ pc' = [pc EXCEPT !.streaming = "offset_advanced"]
            /\ UNCHANGED <<settings, panicked, overflow_checks, ret, handed, lock,
                           frame, pending, bindings>>
       ELSE IF FrameStride(frame.buffer, settings.info) = 0
       THEN Unwind /\ UNCHANGED <<settings, frame>>
       ELSE IF /\ settings.info.height > 0
               /\ FrameStride(frame.buffer, settings.info) < settings.info.width * 4
       THEN Unwind /\ UNCHANGED <<settings, frame>>
       ELSE IF overflow_checks
               /\ BarSumOverflows(settings.info.height, settings.info.width, settings)
       THEN /\ Unwind
            /\ frame' = [frame EXCEPT
                   !.buffer.rows = RowsBeforeBar(settings.info.height, settings),
                   !.buffer.by = IF RowsBeforeBar(settings.info.height, settings) > 0
                                 THEN settings ELSE @]
            /\ UNCHANGED settings
       ELSE /\ frame' = [frame EXCEPT !.buffer.rows = settings.info.height,
                                      !.buffer.by = IF settings.info.height > 0
                                                    THEN settings ELSE @]
            /\ pc' = [pc EXCEPT !.streaming = "rows_painted"]
            /\ UNCHANGED <<settings, panicked, overflow_checks, ret, handed, lock,
                           pending, bindings>>

\* lines 104-105: offset += speed; offset %= height
FillAdvanceOffset ==
    /\ ~panicked
    /\ pc.streaming = "rows_painted"
    /\ IF overflow_checks /\ OverflowsU32(settings.offset, settings.speed)
       THEN Unwind /\ UNCHANGED <<settings, frame>>
       ELSE LET sum == WrappingAddU32(settings.offset, settings.speed) IN
            IF settings.info.height = 0
            THEN /\ Unwind
                 /\ settings' = [settings EXCEPT !.offset = sum]
                 /\ UNCHANGED frame
            ELSE /\ settings' = [settings EXCEPT
                        !.offset = ToU32(RemU32(sum, settings.info.height))]
                 /\ pc' = [pc EXCEPT !.streaming = "offset_advanced"]
                 /\ UNCHANGED <<panicked, overflow_checks, ret, handed, lock,
                                frame, pending, bindings>>

\* lines 458-473: the stamps and the running time
FillStamp ==
    /\ ~panicked
    /\ pc.streaming = "offset_advanced"
    /\ LET off == BufferOffset(settings)
           s2  == [settings EXCEPT !.n_frames = settings.n_frames + 1]
           next_time == gst_util_uint64_scale(s2.n_frames,
                            settings.info.fps_d * SECOND, settings.info.fps_n)
       IN  IF settings.info.fps_n = 0
           THEN /\ Unwind
                /\ settings' = s2
                /\ frame' = [frame EXCEPT !.buffer.dts = NONE,
                                          !.buffer.offset = off,
                                          !.buffer.offset_end = off + 1]
           ELSE /\ settings' = [s2 EXCEPT !.running_time = next_time]
                /\ frame' = [frame EXCEPT
                       !.buffer.dts = NONE,
                       !.buffer.offset = off,
                       !.buffer.offset_end = off + 1,
                       !.buffer.duration = next_time - settings.running_time]
                /\ pc' = [pc EXCEPT !.streaming = "stamped"]
                /\ UNCHANGED <<panicked, overflow_checks, ret, handed, lock,
                               pending, bindings>>

\* lines 475-476 and 426: fill() returns, the guard is dropped, create()
\* hands the buffer to its caller
FillReturn ==
    /\ ~panicked
    /\ pc.streaming = "stamped"
    /\ lock' = "none"
    /\ ret' = [Call("create", "Ok") EXCEPT !.length = frame.length,
                                           !.buffer = frame.buffer]
    /\ handed' = Stamps(handed, frame.buffer)
    /\ pc' = [pc EXCEPT !.streaming = "idle"]
    /\ frame' = NoFrame
    /\ UNCHANGED <<settings, panicked, overflow_checks, pending, bindings>>

\* a set_property() that does not take the lock
SetPropertyLock_NoWait(name, value) ==
    /\ ~panicked
    /\ pc.control = "idle"
    /\ pending' = <<name, value>>
    /\ pc' = [pc EXCEPT !.control = "set_property"]
    /\ UNCHANGED <<settings, panicked, overflow_checks, ret, handed, lock, frame,
                   bindings>>

\* line 191: set_property() takes the lock
SetPropertyLock(name, value) ==
    /\ ~panicked
    /\ pc.control = "idle"
    /\ lock = "none"
    /\ lock' = "control"
    /\ pending' = <<name, value>>
    /\ pc' = [pc EXCEPT !.control = "set_property"]
    /\ UNCHANGED <<settings, panicked, overflow_checks, ret, handed, frame,
                   bindings>>

\* lines 193-208: the field is written and the guard dropped
SetPropertyWrite ==
    /\ ~panicked
    /\ pc.control = "set_property"
    /\ settings' = set_property(settings, pending[1], pending[2])
    /\ lock' = IF lock = "control" THEN "none" ELSE lock
    /\ pending' = NoPending
    /\ pc' = [pc EXCEPT !.control = "idle"]
    /\ UNCHANGED <<panicked, overflow_checks, ret, handed, frame, bindings>>

\* line 211: property() takes the lock
PropertyLock(name) ==
    /\ ~panicked
    /\ pc.control = "idle"
    /\ lock = "none"
    /\ lock' = "control"
    /\ pending' = <<name, U32(0, 0)>>
    /\ pc' = [pc EXCEPT !.control = "property"]
    /\ UNCHANGED <<settings, panicked, overflow_checks, ret, handed, frame,
                   bindings>>

\* lines 212-227: the field is read and the guard dropped
PropertyReturn ==
    /\ ~panicked
    /\ pc.control = "property"
    /\ pending' = <<pending[1], property(settings, pending[1])>>
    /\ lock' = "none"
    /\ pc' = [pc EXCEPT !.control = "idle"]
    /\ UNCHANGED <<settings, panicked, overflow_checks, ret, handed, frame,
                   bindings>>

ThreadCaps == { RawCaps(1, 3, 30, 1) }

\* what alloc() finds in SpecThreads: no pool, a pool of frames, a pool
\* whose video meta gives rows of 2 bytes, a flushing pool, no pool and no
\* memory
ThreadPools ==
    { NoPool, Pool("active", 0, NONE), Pool("active", -2, NONE),
      Pool("flushing", 0, NONE), Pool("no_memory", 0, NONE) }

\* the property writes of the control thread in SpecThreads
ThreadWrites == { <<"speed", ToU32(1)>>, <<"size", ToU32(1)>> }

\* Streaming on a negotiated format. set_caps() is not called while a pull is
\* in flight (the framework takes the stream lock); it takes the settings
\* lock.
NextThreads ==
    \/ \E caps \in ThreadCaps : SetCaps(caps)
    \/ \E length \in Lengths : CreateCall(length)
    \/ AllocLock
    \/ \E pool \in ThreadPools, free \in BOOLEAN, fillByte \in Fills :
          AllocAcquire(pool, free, fillByte)
    \/ \E pool \in ThreadPools, fillByte \in Fills : AllocWake(pool, fillByte)
    \/ FillLock
    \/ FillSyncValues
    \/ \E asserts \in BOOLEAN : FillPaintRows(asserts)
    \/ FillAdvanceOffset
    \/ FillStamp
    \/ FillReturn
    \/ \E w \in ThreadWrites : SetPropertyLock(w[1], w[2])
    \/ SetPropertyWrite
    \/ \E name \in {"speed"} : PropertyLock(name)
    \/ PropertyReturn
    \/ \E name \in {"speed"} : AddControlBinding(name)

SpecThreads == Init /\ [][NextThreads]_vars

\* Every statement of a running handler is executed, and Mutex::lock returns
\* if the mutex stays free (weak fairness of each step). std::sync::Mutex
\* promises no order among the threads that wait for it, and nothing makes
\* the peer release a buffer to the pool: no fairness beyond that.
SpecThreadsFair ==
    /\ SpecThreads
    /\ WF_vars(AllocLock)
    /\ WF_vars(\E pool \in ThreadPools, free \in BOOLEAN, fillByte \in Fills :
                  AllocAcquire(pool, free, fillByte))
    /\ WF_vars(FillLock)
    /\ WF_vars(FillSyncValues)
    /\ WF_vars(\E asserts \in BOOLEAN : FillPaintRows(asserts))
    /\ WF_vars(FillAdvanceOffset)
    /\ WF_vars(FillStamp)
    /\ WF_vars(FillReturn)
    /\ WF_vars(SetPropertyWrite)
    /\ WF_vars(PropertyReturn)

----------------------------------------------------------------------------
(* Steps of the handlers, as seen in `ret` *)

\* a create() that returned a buffer to the caller
CreateReturned == ret'.op = "create" /\ ret'.result = "Ok"

\* a create() with length > 0 that returned a buffer: fill() has run on it
CreateOk == CreateReturned /\ ret'.length > 0

\* a set_caps() that accepted the capability set
SetCapsOk == ret'.op = "set_caps" /\ ret'.result = "Ok"

----------------------------------------------------------------------------
(* Timeline across renegotiations *)

\* C1: for start(), successful set_caps() calls with positive framerates and
\* successful pulls, the PTS of the buffers handed to the caller since the
\* last start() never decreases from one buffer to the next.
C1_PtsMonotonic ==
    [][(CreateOk /\ handed.any) => handed'.pts >= handed.pts]_vars

\* C2: every successful set_caps() adds n_frames to accum_frames and
\* running_time to accum_rtime, then zeroes n_frames and running_time.
C2_AdditiveTransfer ==
    [][SetCapsOk =>
          /\ settings'.accum_frames = settings.accum_frames + settings.n_frames
          /\ settings'.accum_rtime = settings.accum_rtime + settings.running_time
          /\ settings'.n_frames = 0
          /\ settings'.running_time = 0]_vars

\* C3: of two consecutive successful pulls since start(), the second buffer's
\* sequence offset is the first one's plus 1 (its end-offset), and every
\* buffer's end-offset is its offset plus 1.
C3_ConsecutiveOffsets ==
    [][CreateOk =>
          /\ ret'.buffer.offset_end = ret'.buffer.offset + 1
          /\ handed.any =>
                /\ handed'.offset = handed.offset + 1
                /\ handed'.offset = handed.offset_end]_vars

\* the returned buffer is stamped from the settings `began`, and the pull has
\* advanced only n_frames and running_time
StampedFrom(began) ==
    /\ ret'.buffer.pts = began.accum_rtime + began.running_time
    /\ ret'.buffer.dts = NONE
    /\ ret'.buffer.offset = began.accum_frames + began.n_frames
    /\ ret'.buffer.offset_end = ret'.buffer.offset + 1
    /\ ret'.buffer.duration = settings'.running_time - began.running_time
    /\ settings'.n_frames = began.n_frames + 1
    /\ settings'.accum_frames = began.accum_frames
    /\ settings'.accum_rtime = began.accum_rtime

\* C5: every successful pull stamps its buffer from the settings as they were
\* when the pull began (PTS = accum_rtime + running_time, DTS unset, offset =
\* accum_frames + n_frames, end-offset = offset + 1, duration = new running
\* time - previous running time), increments n_frames by 1 and leaves
\* accum_frames and accum_rtime alone.
C5_EveryPullStamps ==
    [][CreateReturned => StampedFrom(settings)]_vars

----------------------------------------------------------------------------
(* The bar offset *)

\* the descriptor comes from set_caps(), not from start()
Negotiated == settings.info.is_some /\ settings.info # StartInfo

\* C6: once a format is negotiated, 0 <= offset < height of the negotiated
\* format in every reachable state (stated for the heights that admit it,
\* height > 0).
C6_OffsetBelowHeight ==
    (Negotiated /\ settings.info.height > 0)
        => LtU32(settings.offset, ToU32(settings.info.height))

\* a create() that handed out a buffer make_image has painted
Painted == CreateOk /\ ret'.buffer.rows > 0

\* C7: a paint with speed s and frame height h that starts from offset o < h
\* leaves the offset (o + s) mod h, in [0, h), for every s of the unsigned
\* 32-bit range: the 32-bit addition offset + speed does not change the
\* result. (One paint; N paints follow by induction.)
C7_OffsetWrap ==
    [][(Painted /\ LtU32(settings.offset, ToU32(settings.info.height)))
          => /\ settings'.offset =
                   ToU32((RemU32(settings.offset, settings.info.height)
                          + RemU32(settings.speed, settings.info.height))
                         % settings.info.height)
             /\ LtU32(settings'.offset, ToU32(settings.info.height))]_vars

----------------------------------------------------------------------------
(* Painting *)

\* a - b for a >= b
SubU32(a, b) ==
    IF a[2] >= b[2] THEN <<a[1] - b[1], a[2] - b[2]>>
    ELSE <<a[1] - b[1] - 1, a[2] + LIMB - b[2]>>

\* offset <= r < offset + bar_size over the naturals
RowInBar(r, offset, size) ==
    /\ GeU32(ToU32(r), offset)
    /\ LtU32(SubU32(ToU32(r), offset), size)

\* C8: make_image on a frame of the given stride and width writes, for every
\* row r and every pixel of the row, 0xFF to the three colour bytes if
\* offset <= r < offset + bar_size and 0x00 otherwise, for all unsigned 32-bit
\* offset and bar_size; the 4th byte of every pixel, the bytes of a row
\* beyond width * 4 and the bytes behind the last row are left as they were.
C8_BarRows ==
    [][Painted =>
          LET buf    == ret'.buffer
              stride == FrameStride(buf, settings.info)
          IN  \A i \in 1 .. buf.bytes :
                  Payload(buf)[i] =
                      IF /\ (i - 1) \div stride < settings.info.height
                         /\ (i - 1) % stride < settings.info.width * 4
                         /\ ((i - 1) % stride) % 4 # 3
                      THEN (IF RowInBar((i - 1) \div stride, settings.offset,
                                        settings.size)
                            THEN 255 ELSE 0)
                      ELSE buf.fill]_vars

\* foreground colour, background colour and timing values of a second run
OtherRuns ==
    { <<U32(0, 0), U32_MAX, 0>>,
      <<U32(4660, 22136), U32(65280, 255), 7>>,
      <<U32_MAX, U32(0, 0), 7>>,
      <<U32(65280, 255), U32(4660, 22136), 0>> }

\* C9: two runs of the painting that start with equal offset, speed, bar
\* size, frame height, width, stride and buffer contents, and with arbitrary
\* colours and timing fields, produce the same bytes and the same offset: the
\* run the element made and any run that differs from it in those fields.
C9_ColourIndependent ==
    [][Painted =>
          LET stride == FrameStride(ret'.buffer, settings.info)
              before == Provided(ret'.buffer)
              after  == Payload(ret'.buffer)
          IN  \A o \in OtherRuns :
                  LET other == [settings EXCEPT !.foreground_color = o[1],
                                                !.background_color = o[2],
                                                !.n_frames = o[3],
                                                !.accum_frames = o[3],
                                                !.running_time = o[3],
                                                !.accum_rtime = o[3]]
                      run == make_image(settings.info.height, stride,
                                        settings.info.width, other, overflow_checks)
                  IN  /\ ~run.panic
                      /\ run.settings.offset = settings'.offset
                      /\ make_image_data(before, stride, run.rows,
                                         settings.info.width, other) = after]_vars

\* a painted frame with bar rows and background rows, padded rows, made with
\* a foreground and a background colour that are not the defaults
C9_Witness ==
    /\ ret.op = "create" /\ ret.result = "Ok" /\ ret.buffer.rows > 0
    /\ settings.foreground_color # DEFAULT_FOREGROUND_COLOR
    /\ settings.background_color # DEFAULT_BACKGROUND_COLOR
    /\ settings.info.width > 0
    /\ ret.buffer.meta_stride > settings.info.width * 4
    /\ \E r \in 0 .. ret.buffer.rows - 1 :
          Payload(ret.buffer)[r * ret.buffer.meta_stride + 1] = 255
    /\ \E r \in 0 .. ret.buffer.rows - 1 :
          Payload(ret.buffer)[r * ret.buffer.meta_stride + 1] = 0

----------------------------------------------------------------------------
(* Running time *)

\* Exact arithmetic on products beyond the integer range: <<hi, lo>> is
\* hi * 10^6 + lo with 0 <= lo < 10^6.
WideMul(a, k) ==
    <<(a \div 1000000) * k + ((a % 1000000) * k) \div 1000000,
      ((a % 1000000) * k) % 1000000>>

WideAdd(x, k) == <<x[1] + (x[2] + k) \div 1000000, (x[2] + k) % 1000000>>

WideLe(x, y) == x[1] < y[1] \/ (x[1] = y[1] /\ x[2] <= y[2])

\* rt = floor(n * den * 10^9 / num), that is
\* rt * num <= n * den * 10^9 < rt * num + num
IsScaledFloor(rt, n, den, num) ==
    /\ WideLe(WideMul(rt, num), WideMul(SECOND, n * den))
    /\ ~WideLe(WideAdd(WideMul(rt, num), num), WideMul(SECOND, n * den))

\* C4: whenever the negotiated framerate is num/den with num > 0,
\* running_time = floor(n_frames * den * 10^9 / num) ns; after 30 pulls at
\* 30/1 it is exactly 10^9 ns; a renegotiation leaves accum_rtime equal to the
\* running_time before it, and the first frame of the new epoch has
\* PTS = accum_rtime.
C4_RunningTime ==
    /\ [](settings.info.is_some /\ settings.info.fps_n > 0
            => IsScaledFloor(settings.running_time, settings.n_frames,
                             settings.info.fps_d, settings.info.fps_n))
    /\ []((settings.info.fps_n = 30 /\ settings.info.fps_d = 1
              /\ settings.n_frames = 30)
            => settings.running_time = 1000000000)
    /\ [][SetCapsOk => settings'.accum_rtime = settings.running_time]_vars
    /\ [][(CreateOk /\ settings.n_frames = 0)
            => ret'.buffer.pts = settings.accum_rtime]_vars

\* 30 frames at 30/1 in an epoch that follows a renegotiation
C4_Witness ==
    /\ settings.info.fps_n = 30 /\ settings.info.fps_d = 1
    /\ settings.n_frames = 30
    /\ settings.running_time = 1000000000
    /\ settings.accum_rtime > 0
    /\ ret.op = "create" /\ ret.result = "Ok"

----------------------------------------------------------------------------
(* Fixation *)

\* C10: fixate() called while the top 8 bits of foreground_color are not 0xFF
\* returns the candidate capability set unchanged and leaves the format
\* descriptor and every other settings field unchanged.
C10_FixateRefused ==
    [][(ret'.op = "fixate" /\ pc.streaming = "idle"
          /\ settings.foreground_color[1] \div 256 # 255)
        => /\ ret'.result = "caps"
           /\ ret'.out = ret'.arg
           /\ pc'.streaming = "idle"
           /\ settings' = settings]_vars

\* fixate() was refused on the open template
C10_Witness ==
    /\ ret.op = "fixate" /\ ret.result = "caps"
    /\ pc.streaming = "idle"
    /\ settings.foreground_color[1] \div 256 # 255
    /\ ret.arg = TemplateCaps
    /\ ret.out = TemplateCaps

\* the int field `out` is the value of the field `arg` nearest to target
NearestInt(arg, out, target) ==
    IF arg.kind # "range" THEN out = arg
    ELSE /\ out.kind = "fixed" /\ out.lo = out.hi
         /\ arg.lo <= out.lo /\ out.lo <= arg.hi
         /\ \/ out.lo = target
            \/ out.lo = arg.lo /\ target < arg.lo
            \/ out.lo = arg.hi /\ target > arg.hi

\* n1/d1 < n2/d2
FracLt(x, y) == x[1] * y[2] < y[1] * x[2]

\* the fraction field `out` is the value of the field `arg` nearest to target,
\* and target itself when the structure has no such field
NearestFrac(arg, out, target) ==
    CASE arg.kind = "fixed" -> out = arg
      [] arg.kind = "absent" -> out.kind = "fixed" /\ out.lo = target /\ out.hi = target
      [] arg.kind = "range" ->
            /\ out.kind = "fixed" /\ out.lo = out.hi
            /\ ~FracLt(out.lo, arg.lo) /\ ~FracLt(arg.hi, out.lo)
            /\ \/ out.lo = target
               \/ out.lo = arg.lo /\ FracLt(target, arg.lo)
               \/ out.lo = arg.hi /\ FracLt(arg.hi, target)

\* the capability set `out` is `arg` with every range resolved to the value
\* nearest the preferred default
FixatedNearest(arg, out) ==
    /\ NearestInt(arg.width, out.width, 320)
    /\ NearestInt(arg.height, out.height, 240)
    /\ NearestFrac(arg.framerate, out.framerate, <<30, 1>>)
    /\ out.name = arg.name
    /\ out.format = arg.format
    /\ arg = TemplateCaps
          => /\ out.width = IntFixed(320)
             /\ out.height = IntFixed(240)
             /\ out.framerate = FracFixed(30, 1)

\* C11: fixate() with an opaque foreground colour (opaque when fixate() tests
\* it) resolves a width range to its value nearest 320, a height range to its
\* value nearest 240, a framerate range to its value nearest 30/1, sets the
\* framerate to 30/1 when the structure has none, and leaves fixed fields,
\* the name and the format as they were; the open template ranges give
\* 320x240 at 30/1. Property writes of another thread while fixate() runs
\* without the lock do not change what it returns.
C11_FixateNearest ==
    /\ [][(ret'.op = "fixate" /\ pc.streaming = "idle"
             /\ settings.foreground_color[1] \div 256 = 255)
           => (pc'.streaming = "fixating" /\ frame'.caps = ret'.arg)]_vars
    /\ [][(ret'.op = "fixate" /\ pc.streaming = "fixating")
           => /\ ret'.result = "caps"
              /\ ret'.arg = frame.caps
              /\ FixatedNearest(ret'.arg, ret'.out)]_vars

\* fixate() resolved ranges to their lower end, to their upper end and to the
\* preferred value, and left a fixed field alone
C11_Witness ==
    /\ ret.op = "fixate" /\ ret.result = "caps"
    /\ settings.foreground_color[1] \div 256 = 255
    /\ ret.arg.width = IntRange(1, 100) /\ ret.out.width = IntFixed(100)
    /\ ret.arg.height = IntRange(480, 1080) /\ ret.out.height = IntFixed(480)
    /\ ret.arg.framerate = FracFixed(15, 2) /\ ret.out.framerate = FracFixed(15, 2)

----------------------------------------------------------------------------
(* Allocation *)

\* the byte size of the negotiated frame
NegotiatedSize == settings.info.width * settings.info.height * 4

\* C12: a decide_allocation() that succeeds on a query with at least one
\* proposed pool configures the first proposal with size = max(negotiated
\* frame size, proposed size), never less than the negotiated size, keeps its
\* min and max, and writes it back as entry 0, the number of entries and the
\* other entries being unchanged; on a query without pools it appends one
\* entry, a fresh pool of the negotiated frame size with min/max 0/0.
C12_PoolDecision ==
    (ret.op = "decide_allocation" /\ ret.result = "Ok")
        => IF Len(ret.query.pools) >= 1
           THEN LET was == ret.query.pools[1]
                    now == ret.answer.pools[1]
                IN  /\ Len(ret.answer.pools) = Len(ret.query.pools)
                    /\ now[2] >= NegotiatedSize /\ now[2] >= was[2]
                    /\ now[2] \in {NegotiatedSize, was[2]}
                    /\ now[3] = was[3] /\ now[4] = was[4]
                    /\ was[1] # "none" => now[1] = was[1]
                    /\ \A i \in 2 .. Len(ret.query.pools) :
                          ret.answer.pools[i] = ret.query.pools[i]
                    /\ ret.config.pool = now[1] /\ ret.config.size = now[2]
                    /\ ret.config.min = now[3] /\ ret.config.max = now[4]
           ELSE /\ Len(ret.answer.pools) = 1
                /\ ret.answer.pools[1] = <<"new", NegotiatedSize, 0, 0>>
                /\ ret.config.pool = "new" /\ ret.config.size = NegotiatedSize
                /\ ret.config.min = 0 /\ ret.config.max = 0

\* a proposed pool smaller than the negotiated 1x3 frame was raised to the
\* frame size and written back in place
C12_Witness ==
    /\ ret.op = "decide_allocation" /\ ret.result = "Ok"
    /\ settings.info.width = 1 /\ settings.info.height = 3
    /\ ret.query.pools = << <<"p1", 8, 2, 4>> >>
    /\ ret.answer.pools = << <<"p1", 12, 2, 4>> >>

----------------------------------------------------------------------------
(* Failures *)

\* C13: a pull issued while no format descriptor is set, or while the
\* descriptor's pixel layout is unknown, returns NotNegotiated and leaves the
\* element usable.
C13_NotNegotiated ==
    [][(ret'.op = "create"
          /\ (~settings.info.is_some \/ settings.info.format = "Unknown"))
        => (ret'.result = "NotNegotiated" /\ ~panicked')]_vars

\* a set_caps() that rejected the capability set
SetCapsErr == ret'.op = "set_caps" /\ ret'.result = "Err"

\* C14: a rejected set_caps() returns an error and leaves the format
\* descriptor, n_frames, running_time, accum_frames and accum_rtime as they
\* were.
C14_RejectedSetCaps ==
    /\ [][SetCapsErr =>
            /\ settings'.info = settings.info
            /\ settings'.n_frames = settings.n_frames
            /\ settings'.running_time = settings.running_time
            /\ settings'.accum_frames = settings.accum_frames
            /\ settings'.accum_rtime = settings.accum_rtime]_vars

\* a capability set was rejected in the middle of the second epoch of a stream
C14_Witness ==
    /\ ret.op = "set_caps" /\ ret.result = "Err"
    /\ Negotiated
    /\ settings.n_frames = 1 /\ settings.running_time > 0
    /\ settings.accum_frames = 2 /\ settings.accum_rtime > 0

\* start() zeroes the timing fields, installs the default descriptor and
\* leaves the property values
StartResets ==
    ret'.op = "start" =>
        /\ settings'.n_frames = 0 /\ settings'.running_time = 0
        /\ settings'.accum_frames = 0 /\ settings'.accum_rtime = 0
        /\ settings'.info.is_some
        /\ settings'.info.width = 320 /\ settings'.info.height = 240
        /\ settings'.info.fps_n = 0 /\ settings'.info.fps_d = 1
        /\ settings'.foreground_color = settings.foreground_color
        /\ settings'.background_color = settings.background_color
        /\ settings'.speed = settings.speed
        /\ settings'.size = settings.size

\* C15: start() sets n_frames, running_time, accum_frames and accum_rtime to
\* zero, installs the 320x240 descriptor with framerate 0/1 and changes no
\* property value; the first buffer a pull returns after start() and a
\* subsequent successful set_caps() has PTS 0 and sequence offset 0.
C15_FirstBufferZero ==
    [][/\ StartResets
       /\ (CreateReturned /\ handed.started /\ ~handed.any /\ Negotiated)
             => (ret'.buffer.pts = 0 /\ ret'.buffer.offset = 0)]_vars

\* C17: a pull on a negotiated format whose buffer cannot be mapped as a
\* writable frame returns success, writes no byte of the payload (every byte
\* is what the allocator provided) and does not advance the bar offset.
C17_UnmappedNoOp ==
    [][(/\ \E asserts \in BOOLEAN : CreateFill(asserts)
        /\ ~Fits(frame.buffer, settings.info)
        /\ settings.info.fps_n > 0)
        => /\ ret'.op = "create"
           /\ ret'.result = "Ok"
           /\ ret'.buffer.present
           /\ ret'.buffer.rows = 0
           /\ \A i \in 1 .. ret'.buffer.bytes :
                 Payload(ret'.buffer)[i] = ret'.buffer.fill
           /\ settings'.offset = settings.offset]_vars

\* a pull handed out the one byte of a pool buffer too small for the 1x3
\* frame, as the pool provided it
C17_Witness ==
    /\ ret.op = "create" /\ ret.result = "Ok" /\ ret.length > 0
    /\ ret.buffer.rows = 0
    /\ settings.info.width = 1 /\ settings.info.height = 3
    /\ ret.buffer.bytes = 1
    /\ Payload(ret.buffer) = <<85>>
    /\ ret.buffer.pts > 0

\* C20: whenever a pull reaches the running-time computation (it has
\* incremented n_frames), the framerate numerator and the frame height of the
\* descriptor are both non-zero.
C20_RatesDefined ==
    [][(ret'.op = "create" /\ settings'.n_frames = settings.n_frames + 1)
        => (settings.info.fps_n # 0 /\ settings.info.height # 0)]_vars

----------------------------------------------------------------------------
(* Threads *)

\* the positions of fill() between taking and dropping the lock
InFill == {"locked", "sync_values", "synced", "rows_painted", "offset_advanced",
           "stamped"}

\* the buffer as alloc() returned it: no stamp set, no row written
AsAllocated(buf) ==
    [NoBuffer EXCEPT !.present = buf.present, !.bytes = buf.bytes,
                     !.meta_stride = buf.meta_stride, !.fill = buf.fill]

\* C18: with a control thread calling set_property() and property() while the
\* streaming thread pulls, no step taken while fill() holds the lock changes
\* a property value, and the frame a pull hands out (rows, bar offset after
\* it, stamps, timing fields) is the one computed in one piece from the
\* settings as they were when fill() took the lock, that is with every write
\* that completed before.
C18_ConsistentSnapshot ==
    /\ [][pc.streaming \in InFill =>
            /\ settings'.foreground_color = settings.foreground_color
            /\ settings'.background_color = settings.background_color
            /\ settings'.speed = settings.speed
            /\ settings'.size = settings.size]_vars
    /\ [][(pc.streaming = "stamped" /\ pc'.streaming = "idle" /\ ~panicked')
            => \A asserts \in BOOLEAN :
                 LET f == fill(frame.snap, AsAllocated(ret'.buffer),
                               overflow_checks, asserts)
                 IN  /\ f.result = "Ok"
                     /\ ret'.buffer = f.buffer
                     /\ Payload(ret'.buffer) = Payload(f.buffer)
                     /\ settings' = f.settings]_vars

\* a pull handed out a frame painted with a bar size and advanced by a speed
\* that the control thread wrote: one bar row, offset 1 after the first frame
C18_Witness ==
    /\ ret.op = "create" /\ ret.result = "Ok" /\ ret.buffer.rows = 3
    /\ pc.streaming = "idle"
    /\ settings.speed = ToU32(1) /\ settings.size = ToU32(1)
    /\ Payload(ret.buffer)[1] = 255 /\ Payload(ret.buffer)[5] = 0
    /\ settings.offset = ToU32(1)
    /\ settings.n_frames = 1

\* the control thread is fair to the pull: a pull that finds the settings
\* lock free again and again gets it
LockFair == SF_vars(AllocLock) /\ SF_vars(FillLock)

\* C19: the streaming thread never waits for the settings lock while it holds
\* it (sync_values() at line 453 included), and, under fairness of the
\* control thread, every pull that starts eventually returns.
C19_PullReturns ==
    /\ [](pc.streaming # "sync_values")
    /\ LockFair => ((pc.streaming # "idle") ~> (pc.streaming = "idle"))

====
